---- MODULE Spec2Model ----
(***************************************************************************)
(* crictty: the cricbuzz client (rate-limited requests, live-match         *)
(* discovery, match resolution, scorecard extraction), the App refresh     *)
(* cycle and the bubbletea Model that drives it.                           *)
(*                                                                         *)
(* Strings are sequences of one-character strings.  Time is counted in     *)
(* seconds.                                                                *)
(***************************************************************************)
EXTENDS Integers, Sequences, FiniteSets, TLC

\* ------------------------------------------------------------------ bounds
MaxCmds   == 2   \* command goroutines bubbletea runs at once
MaxTime   == 3   \* the clock stops advancing here
MaxTimers == 2   \* pending tea.Tick timers
MaxRows   == 2   \* row groups fed to one innings container

\* --------------------------------------------------------- program constants
requestInterval == 1   \* 1 * time.Second

VARIABLES
    now,            \* time.Now()
    lastRequest,    \* package variable lastRequest
    Matches,        \* App.Matches
    gs,             \* goroutines: position and locals of each running call
    timers,         \* due times of the pending tea.Tick commands
    selectedMatch,  \* Model.selectedMatch
    currentInnings, \* Model.currentInnings
    showBowling,    \* Model.showBowling
    tickRate,       \* Model.tickRate, in seconds
    ui,             \* "load" (before p.Run), "run", "quit" (tea.Quit),
                    \* "failed" (New returned an error), "panic"
    prevBegin,      \* history: when the request before the latest began
    lastBegin,      \* history: when the latest request began
    innings,        \* parseInningsInfo: the innings record being filled
    rowLog,         \* history: the row groups parseInningsInfo has visited
    fragment,       \* cleanHTML: the fragment handed to it first
    cleanText,      \* cleanHTML: what it returned, each time it was applied
    at              \* where the event loop is inside Update or View: "idle"
                    \* (between messages), "down" (before line 547), "view"
                    \* (before line 596), "card" (before line 834)

vars == <<now, lastRequest, Matches, gs, timers, selectedMatch, currentInnings,
          showBowling, tickRate, ui, prevBegin, lastBegin,
          innings, rowLog,
          fragment, cleanText, at>>

\* ----------------------------------------------------------------- strings
Upper == <<"A","B","C","D","E","F","G","H","I","J","K","L","M",
           "N","O","P","Q","R","S","T","U","V","W","X","Y","Z">>
Lower == <<"a","b","c","d","e","f","g","h","i","j","k","l","m",
           "n","o","p","q","r","s","t","u","v","w","x","y","z">>
Digits == <<"0","1","2","3","4","5","6","7","8","9">>

IsDigit(c) == \E i \in 1..10 : Digits[i] = c
DigitVal(c) == (CHOOSE i \in 1..10 : Digits[i] = c) - 1
\* unicode.IsSpace; "VT", "NEL" and "NBSP" stand for U+000B, U+0085 and U+00A0
IsSpace(c) == c \in {" ", "\t", "\n", "\r", "\f", "VT", "NEL", "NBSP"}
\* the regexp class \s
IsReSpace(c) == c \in {" ", "\t", "\n", "\r", "\f"}

ToLowerChar(c) ==
    IF \E i \in 1..26 : Upper[i] = c
    THEN Lower[CHOOSE i \in 1..26 : Upper[i] = c]
    ELSE c

\* strings.ToLower
ToLower(s) == [i \in 1..Len(s) |-> ToLowerChar(s[i])]

\* strings.Contains
Contains(s, sub) ==
    \E i \in 0..(Len(s) - Len(sub)) : SubSeq(s, i + 1, i + Len(sub)) = sub

RECURSIVE TrimLeft(_)
TrimLeft(s) ==
    IF s # <<>> /\ IsSpace(Head(s)) THEN TrimLeft(Tail(s)) ELSE s

RECURSIVE TrimRight(_)
TrimRight(s) ==
    IF s # <<>> /\ IsSpace(s[Len(s)])
    THEN TrimRight(SubSeq(s, 1, Len(s) - 1))
    ELSE s

\* strings.TrimSpace
TrimSpace(s) == TrimRight(TrimLeft(s))

\* strings.Split(s, sep) for a one-character separator: every separator cuts
RECURSIVE Split(_, _)
Split(s, sep) ==
    IF \E i \in 1..Len(s) : s[i] = sep
    THEN LET i == CHOOSE k \in 1..Len(s) :
                      s[k] = sep /\ \A j \in 1..(k - 1) : s[j] # sep
         IN <<SubSeq(s, 1, i - 1)>> \o Split(SubSeq(s, i + 1, Len(s)), sep)
    ELSE <<s>>

RECURSIVE StripZeros(_)
StripZeros(s) ==
    IF Len(s) > 1 /\ Head(s) = "0" THEN StripZeros(Tail(s)) ELSE s

RECURSIVE DecimalVal(_)
DecimalVal(s) ==
    IF s = <<>> THEN 0
    ELSE 10 * DecimalVal(SubSeq(s, 1, Len(s) - 1)) + DigitVal(s[Len(s)])

\* "4294967295", the largest uint32
MaxUint32Digits == <<"4","2","9","4","9","6","7","2","9","5">>

RECURSIVE DigitsLeq(_, _)
DigitsLeq(a, b) ==   \* a <= b for digit strings of equal length
    IF a = <<>> THEN TRUE
    ELSE IF DigitVal(Head(a)) # DigitVal(Head(b))
         THEN DigitVal(Head(a)) < DigitVal(Head(b))
         ELSE DigitsLeq(Tail(a), Tail(b))

\* strconv.ParseUint(s, 10, 32): no sign, digits only, at most 2^32 - 1
ParseUintOk(s) ==
    /\ s # <<>>
    /\ \A i \in 1..Len(s) : IsDigit(s[i])
    /\ LET z == StripZeros(s)
       IN \/ Len(z) < 10
          \/ Len(z) = 10 /\ DigitsLeq(z, MaxUint32Digits)
ParseUintVal(s) == DecimalVal(StripZeros(s))

Max(a, b) == IF a >= b THEN a ELSE b

\* ------------------------------------------------------------ string data
sLive    == <<"L","i","v","e">>
sMATCHES == <<"M","A","T","C","H","E","S">>
sResult  == <<"R","e","s","u","l","t">>
sDash    == <<" ","-"," ">>
sVs      == <<" ","v","s"," ">>

\* ---------------------------------------------------------------- models
\* models.CricbuzzJSON: the two team short names and the mini-score snapshot
CricbuzzJSON(t1, t2, score) == [team1 |-> t1, team2 |-> t2, score |-> score]

\* fmt.Sprintf("%s%d", base, matchID)
ApiURL(base, matchID) == <<base, matchID>>
CricbuzzMatchAPI          == "comm"
CricbuzzMatchScorecardAPI == "scorecard"

\* models.MatchInfo; updated = 0 is the zero LastUpdated
MatchInfo(matchID, url, json, scorecard) ==
    [id |-> matchID, link |-> url, name |-> <<>>, info |-> json,
     sc |-> scorecard, updated |-> 0]

\* an <a> of nav.cb-mat-mnu: its text and its href attribute, if any
Anchor(text, hasHref, href) ==
    [text |-> text, hasHref |-> hasHref, href |-> href]

\* ------------------------------------------------- GetAllLiveMatches, per <a>
\* a slip: the last part of the text is compared with "Live"
AnchorIsLiveLastPart(a) ==
    LET text  == TrimSpace(a.text)
        parts == Split(text, "-")
    IN /\ text # <<>>
       /\ text # sMATCHES
       /\ Len(parts) >= 2
       /\ TrimSpace(parts[Len(parts)]) = sLive

\* lines 179-186: the anchor is a live entry
AnchorIsLive(a) ==
    LET text  == TrimSpace(a.text)
        parts == Split(text, "-")
    IN /\ text # <<>>
       /\ text # sMATCHES
       /\ Len(parts) >= 2
       /\ TrimSpace(parts[2]) = sLive

\* lines 187-202: the link yields a match id
AnchorHasID(a) ==
    /\ a.hasHref
    /\ Len(Split(a.href, "/")) >= 3
    /\ ParseUintOk(Split(a.href, "/")[3])

AnchorID(a) == ParseUintVal(Split(a.href, "/")[3])

\* line 211: strings.TrimSpace(parts[0])
AnchorName(a) == TrimSpace(Split(TrimSpace(a.text), "-")[1])

\* the callback reaches c.GetMatchInfo for this anchor (line 205)
AnchorResolves(a) == AnchorIsLive(a) /\ AnchorHasID(a)

\* ---------------------------------------------------------------- cleanHTML
\* the least k >= from with s[k] = c, or 0
FirstIdx(s, c, from) ==
    IF \E k \in from..Len(s) : s[k] = c
    THEN CHOOSE k \in from..Len(s) :
             s[k] = c /\ \A j \in from..(k - 1) : s[j] # c
    ELSE 0

HasPrefix(s, lit) == Len(s) >= Len(lit) /\ SubSeq(s, 1, Len(lit)) = lit
HasPrefixAt(s, i, lit) ==
    i + Len(lit) - 1 <= Len(s) /\ SubSeq(s, i, i + Len(lit) - 1) = lit

\* strings.ReplaceAll(s, lit, "")
RECURSIVE RemoveLit(_, _)
RemoveLit(s, lit) ==
    IF s = <<>> THEN <<>>
    ELSE IF HasPrefix(s, lit)
         THEN RemoveLit(SubSeq(s, Len(lit) + 1, Len(s)), lit)
         ELSE <<Head(s)>> \o RemoveLit(Tail(s), lit)

sSpanOpen    == <<"<","s","p","a","n">>
sClassEq     == <<"c","l","a","s","s","=","\"">>
sSpanClose   == <<"<","/","s","p","a","n",">">>
sAOpen       == <<"<","a">>
sAClose      == <<"<","/","a",">">>
sStrong      == <<"<","s","t","r","o","n","g",">">>
sStrongClose == <<"<","/","s","t","r","o","n","g",">">>

\* where a match of <span[^>]*class="[^"]*"[^>]*> that starts at s[1] ends, or 0:
\* the first [^>]* is greedy, so the last class=" before any > is tried first
SpanTagEnd(s) ==
    IF ~HasPrefix(s, sSpanOpen) THEN 0
    ELSE LET QuoteAt(p) == FirstIdx(s, "\"", p + Len(sClassEq))
             EndAt(p)   == IF QuoteAt(p) = 0 THEN 0
                           ELSE FirstIdx(s, ">", QuoteAt(p) + 1)
             cands == {p \in (Len(sSpanOpen) + 1)..Len(s) :
                          /\ HasPrefixAt(s, p, sClassEq)
                          /\ \A j \in (Len(sSpanOpen) + 1)..(p - 1) : s[j] # ">"
                          /\ EndAt(p) # 0}
         IN IF cands = {} THEN 0
            ELSE EndAt(CHOOSE p \in cands : \A r \in cands : r <= p)

\* re1.ReplaceAllString(s, "")
RECURSIVE RemoveSpanTags(_)
RemoveSpanTags(s) ==
    IF s = <<>> THEN <<>>
    ELSE IF SpanTagEnd(s) # 0
         THEN RemoveSpanTags(SubSeq(s, SpanTagEnd(s) + 1, Len(s)))
         ELSE <<Head(s)>> \o RemoveSpanTags(Tail(s))

\* where a match of pre[^>]*> that starts at s[1] ends, or 0
TagEnd(s, pre) ==
    IF HasPrefix(s, pre) THEN FirstIdx(s, ">", Len(pre) + 1) ELSE 0

\* regexp.MustCompile(pre + `[^>]*>`).ReplaceAllString(s, "")
RECURSIVE RemoveTags(_, _)
RemoveTags(s, pre) ==
    IF s = <<>> THEN <<>>
    ELSE IF TagEnd(s, pre) # 0
         THEN RemoveTags(SubSeq(s, TagEnd(s, pre) + 1, Len(s)), pre)
         ELSE <<Head(s)>> \o RemoveTags(Tail(s), pre)

\* regexp.MustCompile(`\s+`).ReplaceAllString(s, " ")
RECURSIVE CollapseSpace(_)
CollapseSpace(s) ==
    IF s = <<>> THEN <<>>
    ELSE IF IsReSpace(Head(s))
         THEN IF Len(s) > 1 /\ IsReSpace(s[2])
              THEN CollapseSpace(Tail(s))
              ELSE <<" ">> \o CollapseSpace(Tail(s))
         ELSE <<Head(s)>> \o CollapseSpace(Tail(s))

\* a slip: the last pass, which removes any tag left (re3), is missing
cleanHTMLNoRe3(htmlContent) ==
    IF htmlContent = <<>> THEN <<>>
    ELSE LET t1 == RemoveSpanTags(htmlContent)
             t2 == RemoveLit(t1, sSpanClose)
             t3 == RemoveTags(t2, sAOpen)
             t4 == RemoveLit(t3, sAClose)
             t5 == RemoveLit(t4, sStrong)
             t6 == RemoveLit(t5, sStrongClose)
         IN CollapseSpace(TrimSpace(t6))

cleanHTML(htmlContent) ==
    IF htmlContent = <<>> THEN <<>>
    ELSE LET t1 == RemoveSpanTags(htmlContent)
             t2 == RemoveLit(t1, sSpanClose)
             t3 == RemoveTags(t2, sAOpen)
             t4 == RemoveLit(t3, sAClose)
             t5 == RemoveLit(t4, sStrong)
             t6 == RemoveLit(t5, sStrongClose)
             t7 == RemoveTags(t6, <<"<">>)
         IN CollapseSpace(TrimSpace(t7))

\* goquery Selection.Text() of an element given by its inner HTML: the text nodes
NodeText(html) == RemoveTags(html, <<"<">>)

\* ------------------------------------------------------------- isBattingRow
battingStatuses == <<
    <<"n","o","t"," ","o","u","t">>,
    <<"c"," ">>,
    <<"b"," ">>,
    <<"l","b","w">>,
    <<"r","u","n"," ","o","u","t">>,
    <<"s","t"," ">>,
    <<"h","i","t"," ","w","i","c","k","e","t">>,
    <<"o","b","s","t","r","u","c","t","i","n","g">>,
    <<"h","a","n","d","l","e","d">>,
    <<"t","i","m","e","d"," ","o","u","t">>,
    <<"*">> >>

skipRows == <<
    <<"e","x","t","r","a","s">>,
    <<"t","o","t","a","l">>,
    <<"f","a","l","l"," ","o","f"," ","w","i","c","k","e","t","s">>,
    <<"b","o","w","l","e","r">>,
    <<"o","v","e","r","s">>,
    <<"m","a","i","d","e","n","s">>,
    <<"r","u","n","s">>,
    <<"w","i","c","k","e","t","s">>,
    <<"e","c","o","n","o","m","y">>,
    <<"n","b">>,
    <<"w","d">> >>

\* regexp ^\d+\.\d+$
oversPattern(s) ==
    \E k \in 2..(Len(s) - 1) :
        /\ s[k] = "."
        /\ \A i \in 1..(k - 1) : IsDigit(s[i])
        /\ \A i \in (k + 1)..Len(s) : IsDigit(s[i])

\* lines 392-396
HasBattingStatus(secondCol) ==
    \E i \in 1..Len(battingStatuses) :
        Contains(ToLower(secondCol), battingStatuses[i])

\* lines 405-410
HasSkipLabel(firstCol, secondCol) ==
    \E i \in 1..Len(skipRows) :
        \/ Contains(ToLower(firstCol), skipRows[i])
        \/ Contains(ToLower(secondCol), skipRows[i])

\* a slip: the overs check of lines 387-389 is left out
isBattingRowNoOvers(firstCol, secondCol, divCount) ==
    IF HasBattingStatus(secondCol) THEN TRUE
    ELSE IF HasSkipLabel(firstCol, secondCol) THEN FALSE
    ELSE divCount >= 6 /\ divCount <= 8 /\ firstCol # <<>>

isBattingRow(firstCol, secondCol, divCount) ==
    IF oversPattern(secondCol) THEN FALSE
    ELSE IF HasBattingStatus(secondCol) THEN TRUE
    ELSE IF HasSkipLabel(firstCol, secondCol) THEN FALSE
    ELSE divCount >= 6 /\ divCount <= 8 /\ firstCol # <<>>

\* --------------------------------------------------------- parseInningsInfo
\* a row group is the sequence of the inner HTML of its <div>s
CellText(cells, j) == TrimSpace(NodeText(cells[j]))
CellClean(cells, j) == IF j <= Len(cells) THEN cleanHTML(cells[j]) ELSE <<>>

\* lines 304-327: models.BatsmanInfo filled from the cells
BatsmanInfo(cells) ==
    [Name       |-> CellText(cells, 1),
     Status     |-> CellClean(cells, 2),
     Runs       |-> CellClean(cells, 3),
     Balls      |-> CellClean(cells, 4),
     Fours      |-> CellClean(cells, 5),
     Sixes      |-> CellClean(cells, 6),
     StrikeRate |-> CellClean(cells, 7)]

\* lines 338-363: models.BowlerInfo filled from the cells
BowlerInfo(cells) ==
    [Name    |-> CellText(cells, 1),
     Overs   |-> CellClean(cells, 2),
     Maidens |-> CellClean(cells, 3),
     Runs    |-> CellClean(cells, 4),
     Wickets |-> CellClean(cells, 5),
     NoBalls |-> CellClean(cells, 6),
     Wides   |-> CellClean(cells, 7),
     Economy |-> CellClean(cells, 8)]

sExtras == <<"e","x","t","r","a","s">>
sTotal  == <<"t","o","t","a","l">>
sFallOfWickets == <<"f","a","l","l"," ","o","f"," ","w","i","c","k","e","t","s">>

\* lines 329-332
KeepBatsman(batsman) ==
    /\ batsman.Name # <<>>
    /\ ~Contains(ToLower(batsman.Name), sExtras)
    /\ ~Contains(ToLower(batsman.Name), sTotal)
    /\ ~Contains(ToLower(batsman.Name), sFallOfWickets)

\* line 365
KeepBowler(bowler) == bowler.Name # <<>>

\* models.MatchInningsInfo{}
EmptyInnings == [BatsmanDetails |-> <<>>, BowlerDetails |-> <<>>]

\* a slip: row groups of 5 cells are parsed too
ParseRowFrom5(inn, cells) ==
    LET divCount  == Len(cells)
        firstCol  == CellText(cells, 1)
        secondCol == CellText(cells, 2)
    IN IF divCount < 5 THEN inn
       ELSE IF isBattingRow(firstCol, secondCol, divCount)
            THEN IF KeepBatsman(BatsmanInfo(cells))
                 THEN [inn EXCEPT !.BatsmanDetails = Append(@, BatsmanInfo(cells))]
                 ELSE inn
            ELSE IF KeepBowler(BowlerInfo(cells))
                 THEN [inn EXCEPT !.BowlerDetails = Append(@, BowlerInfo(cells))]
                 ELSE inn

\* lines 287-369: the callback run on one div.cb-scrd-itms
ParseRow(inn, cells) ==
    LET divCount  == Len(cells)
        firstCol  == CellText(cells, 1)
        secondCol == CellText(cells, 2)
    IN IF divCount < 6 THEN inn
       ELSE IF isBattingRow(firstCol, secondCol, divCount)
            THEN IF KeepBatsman(BatsmanInfo(cells))
                 THEN [inn EXCEPT !.BatsmanDetails = Append(@, BatsmanInfo(cells))]
                 ELSE inn
            ELSE IF KeepBowler(BowlerInfo(cells))
                 THEN [inn EXCEPT !.BowlerDetails = Append(@, BowlerInfo(cells))]
                 ELSE inn

RECURSIVE ParseRows(_, _)
ParseRows(inn, rows) ==
    IF rows = <<>> THEN inn
    ELSE ParseRows(ParseRow(inn, Head(rows)), Tail(rows))

\* parseInningsInfo over the row groups of one innings container
parseInningsInfo(rows) == ParseRows(EmptyInnings, rows)

\* ------------------------------------------------------------- GetScorecard
\* a scorecard document: for N = 1..4, whether div#innings_N is there, and its
\* row groups
InningsDiv(present, rows) == [present |-> present, rows |-> rows]

\* a slip: a missing container leaves an empty innings in the list
RECURSIVE ScanInningsPadded(_, _)
ScanInningsPadded(doc, i) ==
    IF i > 4 THEN <<>>
    ELSE <<IF doc[i].present THEN parseInningsInfo(doc[i].rows)
           ELSE EmptyInnings>>
         \o ScanInningsPadded(doc, i + 1)

\* lines 265-277: the loop over innings_1 .. innings_4, from index i on
RECURSIVE ScanInnings(_, _)
ScanInnings(doc, i) ==
    IF i > 4 THEN <<>>
    ELSE (IF doc[i].present THEN <<parseInningsInfo(doc[i].rows)>> ELSE <<>>)
         \o ScanInnings(doc, i + 1)

\* lines 265-279, once the document is parsed
ScorecardOf(doc) == ScanInnings(doc, 1)

\* ------------------------------------------------------------- goroutines
\* 0 is the main goroutine (it runs New or NewWithMatchID before the UI
\* starts); 1..MaxCmds run the commands Model.Update returns.
Cmds == 1..MaxCmds
Goroutines == 0..MaxCmds

\* models.CricbuzzJSON{}
NoJSON == CricbuzzJSON(<<>>, <<>>, 0)

\* what the latest GetMatchInfo call of a goroutine was given and returned;
\* card is the scorecard document it was served, if it parsed
NoResult ==
    [done |-> FALSE, id |-> 0, sumOut |-> "none", scOut |-> "none",
     json |-> NoJSON, card |-> <<>>, err |-> FALSE, info |-> <<>>]

\* pc: "idle"  no call running
\*     "call"  at makeRequest, line 127
\*     "sleep" in time.Sleep, line 127
\*     "back"  the client call has returned to UpdateMatches, New or
\*             NewWithMatchID
\*     "done"  UpdateMatches has returned; its result waits to be sent
\* fn: "update" (UpdateMatches), "new" (New), "newid" (NewWithMatchID)
\* req: the request the goroutine is at: "home", "summary" or "scorecard"
\* history: pre (a.Matches when UpdateMatches was called), res, homeOut and doc
\* (the homepage response), calls (the GetMatchInfo calls of this discovery,
\* in order, with the id asked for and whether the call succeeded), n, first
\* and last (the requests this call has begun: how many, and when the first
\* and the latest began)
IdleG ==
    [pc |-> "idle", fn |-> "none", mode |-> "none", req |-> "none",
     wakeAt |-> 0, id |-> 0, name |-> <<>>, json |-> NoJSON,
     sumOut |-> "none", scOut |-> "none", rest |-> <<>>, acc |-> <<>>,
     err |-> FALSE, val |-> <<>>, pre |-> <<>>, res |-> NoResult,
     homeOut |-> "none", doc |-> <<>>, calls |-> <<>>, card |-> <<>>,
     n |-> 0, first |-> 0, last |-> 0]

\* the client call returns (val, err) to the function that made it
\* (its locals are dead and are cleared)
ReturnTop(rec, err, val) ==
    [rec EXCEPT !.pc = "back", !.req = "none", !.err = err, !.val = val,
                !.id = 0, !.name = <<>>, !.json = NoJSON, !.rest = <<>>,
                !.acc = <<>>, !.sumOut = "none", !.scOut = "none",
                !.card = <<>>]

\* GetMatchInfo lines 220-223: entry, up to its first makeRequest
EnterGetMatchInfo(rec, matchID) ==
    [rec EXCEPT !.pc = "call", !.req = "summary", !.id = matchID,
                !.json = NoJSON, !.sumOut = "none", !.scOut = "none",
                !.card = <<>>]

\* GetMatchInfo is running inside GetAllLiveMatches
InDiscovery(rec) ==
    rec.fn = "new" \/ (rec.fn = "update" /\ rec.mode = "multi")

\* a slip: a live entry with an unusable link ends the scan with an error
RECURSIVE EachAnchorFailFast(_, _)
EachAnchorFailFast(rec, anchors) ==
    IF anchors = <<>> THEN ReturnTop(rec, FALSE, rec.acc)
    ELSE IF AnchorResolves(Head(anchors))
         THEN EnterGetMatchInfo(
                  [rec EXCEPT !.name = AnchorName(Head(anchors)),
                              !.rest = Tail(anchors)],
                  AnchorID(Head(anchors)))
         ELSE IF AnchorIsLive(Head(anchors))
              THEN ReturnTop(rec, TRUE, <<>>)
              ELSE EachAnchorFailFast(rec, Tail(anchors))

\* GetAllLiveMatches lines 178-216: the Each callback over the remaining
\* anchors, up to the next GetMatchInfo call or to the return
RECURSIVE EachAnchor(_, _)
EachAnchor(rec, anchors) ==
    IF anchors = <<>> THEN ReturnTop(rec, FALSE, rec.acc)
    ELSE IF AnchorResolves(Head(anchors))
         THEN EnterGetMatchInfo(
                  [rec EXCEPT !.name = AnchorName(Head(anchors)),
                              !.rest = Tail(anchors)],
                  AnchorID(Head(anchors)))
         ELSE EachAnchor(rec, Tail(anchors))

\* GetAllLiveMatches lines 206-212: what the callback does with the result
Collect(acc, name, err, info) ==
    IF err THEN acc ELSE Append(acc, [info[1] EXCEPT !.name = name])

\* GetMatchInfo returns (info, err): to the discovery callback, or to
\* UpdateMatches / NewWithMatchID
ReturnFromGetMatchInfo(rec, err, info) ==
    LET r == [rec EXCEPT !.res =
                  [done |-> TRUE, id |-> rec.id, sumOut |-> rec.sumOut,
                   scOut |-> rec.scOut, json |-> rec.json,
                   card |-> rec.card, err |-> err, info |-> info]]
    IN IF InDiscovery(rec)
       THEN EachAnchor(
                [r EXCEPT !.acc = Collect(@, rec.name, err, info),
                          !.calls = Append(@, [id |-> rec.id, ok |-> ~err])],
                rec.rest)
       ELSE ReturnTop(r, err, info)

\* GetAllLiveMatches lines 164-178: the homepage response arrives
OnHomepage(rec, out, doc) ==
    IF out # "ok" THEN ReturnTop([rec EXCEPT !.homeOut = out], TRUE, <<>>)
    ELSE EachAnchor([rec EXCEPT !.acc = <<>>, !.homeOut = out, !.doc = doc],
                    doc)

\* a slip: a failed summary is ignored and the scorecard is fetched anyway
OnSummaryContinues(rec, out, json) ==
    [rec EXCEPT !.sumOut = out, !.json = IF out = "ok" THEN json ELSE NoJSON,
                !.pc = "call", !.req = "scorecard"]

\* GetMatchInfo lines 223-236: the summary response arrives
OnSummary(rec, out, json) ==
    IF out # "ok"
    THEN ReturnFromGetMatchInfo([rec EXCEPT !.sumOut = out], TRUE, <<>>)
    ELSE [rec EXCEPT !.sumOut = out, !.json = json,
                     !.pc = "call", !.req = "scorecard"]

\* a slip: the scorecard error is returned instead of being swallowed
OnScorecardFatal(rec, out, doc) ==
    IF out # "ok"
    THEN ReturnFromGetMatchInfo([rec EXCEPT !.scOut = out], TRUE, <<>>)
    ELSE ReturnFromGetMatchInfo(
             [rec EXCEPT !.scOut = out, !.card = doc], FALSE,
             <<MatchInfo(rec.id, ApiURL(CricbuzzMatchAPI, rec.id), rec.json,
                         ScorecardOf(doc))>>)

\* GetMatchInfo lines 236-246 with GetScorecard lines 250-280: the scorecard
\* response arrives
OnScorecard(rec, out, doc) ==
    LET scorecard == IF out = "ok" THEN ScorecardOf(doc) ELSE <<>>
    IN ReturnFromGetMatchInfo(
           [rec EXCEPT !.scOut = out,
                       !.card = IF out = "ok" THEN doc ELSE <<>>], FALSE,
           <<MatchInfo(rec.id, ApiURL(CricbuzzMatchAPI, rec.id), rec.json,
                       scorecard)>>)

\* ------------------------------------------------------------- makeRequest
\* a slip: the sleep is left out
NoWait(last, t) == t

\* line 127: when time.Sleep(time.Until(last.Add(requestInterval))) may return
WakeTime(last, t) == Max(t, last + requestInterval)

\* line 127: lastRequest is read and the sleep begins.  No lock guards
\* lastRequest: the read here and the write of line 128 are separate steps that
\* other goroutines may come between.
makeRequestSleep(g) ==
    /\ ui \in {"load", "run"}
    /\ gs[g].pc = "call"
    /\ gs' = [gs EXCEPT ![g].pc = "sleep",
                        ![g].wakeAt = WakeTime(lastRequest, now)]
    /\ UNCHANGED <<now, lastRequest, Matches, timers, selectedMatch,
                   currentInnings, showBowling, tickRate, ui,
                   prevBegin, lastBegin, innings, rowLog,
                   fragment, cleanText, at>>

\* line 128: the value stored in lastRequest once the sleep is over
Stamp(last, t) == t

\* goroutine g sleeps in makeRequest(url), url being that of req
AtRequest(g, req) == gs[g].pc = "sleep" /\ gs[g].req = req

\* lines 128-129: the sleep is over, lastRequest is set and the GET is sent
makeRequestGet(g, req) ==
    /\ ui \in {"load", "run"}
    /\ AtRequest(g, req)
    /\ now >= gs[g].wakeAt
    /\ lastRequest' = Stamp(lastRequest, now)
    /\ prevBegin' = lastBegin
    /\ lastBegin' = now
    /\ UNCHANGED <<now, Matches, timers, selectedMatch, currentInnings,
                   showBowling, tickRate, ui, innings, rowLog,
                   fragment, cleanText, at>>

\* the sleep is over; history: one more request of this call has begun, at t
Began(rec, t) ==
    [rec EXCEPT !.wakeAt = 0, !.n = @ + 1,
                !.first = IF rec.n = 0 THEN t ELSE @, !.last = t]

GetHomepage(g, out, doc) ==
    /\ makeRequestGet(g, "home")
    /\ gs' = [gs EXCEPT ![g] = OnHomepage(Began(gs[g], now), out, doc)]

GetSummary(g, out, json) ==
    /\ makeRequestGet(g, "summary")
    /\ gs' = [gs EXCEPT ![g] = OnSummary(Began(gs[g], now), out, json)]

GetScorecard(g, out, doc) ==
    /\ makeRequestGet(g, "scorecard")
    /\ gs' = [gs EXCEPT ![g] = OnScorecard(Began(gs[g], now), out, doc)]

\* ----------------------------------------------------------- UpdateMatches
\* lines 52-54 and 63: the mode is chosen from len(a.Matches) and the client
\* call begins; pre remembers a.Matches as the call found it
BeginUpdateMatches(matches) ==
    LET rec == [IdleG EXCEPT !.fn = "update", !.pre = matches]
    IN IF Len(matches) = 1
       THEN EnterGetMatchInfo([rec EXCEPT !.mode = "single"], matches[1].id)
       ELSE [rec EXCEPT !.mode = "multi", !.pc = "call", !.req = "home"]

\* lines 58-60: single match mode stores the result in a.Matches[0]
SingleUpdate(matches, info, t) ==
    [matches EXCEPT ![1] = [info EXCEPT !.name = matches[1].name,
                                        !.updated = t]]

\* lines 67-70: all-matches mode replaces a.Matches
MultiUpdate(matches, val, t) ==
    [i \in 1..Len(val) |-> [val[i] EXCEPT !.updated = t]]

\* lines 55-57 and 64-66: an error is returned and nothing is stored
ErrorUpdate(matches, val, t) == matches

\* lines 55-72: the client call has returned; store and return
UpdateMatchesReturn(g) ==
    /\ ui \in {"load", "run"}
    /\ gs[g].pc = "back"
    /\ gs[g].fn = "update"
    /\ IF gs[g].err
       THEN /\ Matches' = ErrorUpdate(Matches, gs[g].val, now)
            /\ gs' = [gs EXCEPT ![g].pc = "done"]
            /\ ui' = ui
       ELSE IF gs[g].mode = "single"
            THEN IF Len(Matches) = 0
                 THEN \* a.Matches[0]: index out of range
                      /\ ui' = "panic"
                      /\ UNCHANGED <<Matches, gs>>
                 ELSE /\ Matches' = SingleUpdate(Matches, gs[g].val[1], now)
                      /\ gs' = [gs EXCEPT ![g].pc = "done"]
                      /\ ui' = ui
            ELSE /\ Matches' = MultiUpdate(Matches, gs[g].val, now)
                 /\ gs' = [gs EXCEPT ![g].pc = "done"]
                 /\ ui' = ui
    /\ UNCHANGED <<now, lastRequest, timers, selectedMatch, currentInnings,
                   showBowling, tickRate, prevBegin,
                   lastBegin, innings, rowLog,
                   fragment, cleanText, at>>

\* ----------------------------------------------------- New, NewWithMatchID
\* lines 39-41: fmt.Sprintf("%s vs %s", team1, team2)
ShortName(json) == json.team1 \o sVs \o json.team2

\* New lines 21-28 and NewWithMatchID lines 35-47, then NewModel, p.Run and
\* Model.Init, which starts the first tick
ConstructorReturn(g) ==
    /\ ui = "load"
    /\ gs[g].pc = "back"
    /\ gs[g].fn \in {"new", "newid"}
    /\ IF gs[g].err
       THEN /\ ui' = "failed"
            /\ UNCHANGED <<Matches, timers>>
       ELSE /\ ui' = "run"
            /\ Matches' = IF gs[g].fn = "new" THEN gs[g].val
                          ELSE <<[gs[g].val[1] EXCEPT
                                     !.name = ShortName(gs[g].val[1].info)]>>
            /\ timers' = <<now + tickRate>>
    /\ gs' = [gs EXCEPT ![g].pc = "idle"]
    /\ UNCHANGED <<now, lastRequest, selectedMatch, currentInnings,
                   showBowling, tickRate, prevBegin,
                   lastBegin, innings, rowLog,
                   fragment, cleanText, at>>

\* -------------------------------------------------------------------- time
\* time passes
Tick ==
    /\ now < MaxTime
    /\ now' = now + 1
    /\ UNCHANGED <<lastRequest, Matches, gs, timers, selectedMatch,
                   currentInnings, showBowling, tickRate, ui,
                   prevBegin, lastBegin, innings, rowLog,
                   fragment, cleanText, at>>

\* time passes until the sleep of goroutine g is over
Elapse(g) ==
    /\ gs[g].pc = "sleep"
    /\ now < gs[g].wakeAt
    /\ now' = gs[g].wakeAt
    /\ UNCHANGED <<lastRequest, Matches, gs, timers, selectedMatch,
                   currentInnings, showBowling, tickRate, ui,
                   prevBegin, lastBegin, innings, rowLog,
                   fragment, cleanText, at>>

\* ------------------------------------------------------------------ inputs
MaxAnchors == 2   \* anchors in the navigation menu of a homepage

Outcomes == {"ok", "fail", "bad"}   \* a response, a transport error, a bad body

\* --match-id values
MatchIDs == {1, 2}

\* --tick-rate values, in seconds
TickRates == {1}

Summaries == {CricbuzzJSON(<<"I">>, <<"A">>, sc) : sc \in {0, 1}}

\* row groups: a batsman, a bowler
BatRow  == << <<"K">>, <<"n","o","t"," ","o","u","t">>, <<"5">>, <<"9">>,
              <<"1">>, <<"0">>, <<"5","5",".","5">> >>
BowlRow == << <<"S">>, <<"4",".","0">>, <<"0">>, <<"2","1">>, <<"1">>,
              <<"0">>, <<"1">>, <<"5",".","2">> >>

NoDiv == InningsDiv(FALSE, <<>>)
\* scorecard documents: no innings yet; innings_1 and innings_3; innings_2
\* and innings_4
Cards == { <<NoDiv, NoDiv, NoDiv, NoDiv>>,
           <<InningsDiv(TRUE, <<BatRow, BowlRow>>), NoDiv,
             InningsDiv(TRUE, <<BatRow>>), NoDiv>>,
           <<NoDiv, InningsDiv(TRUE, <<BowlRow>>), NoDiv,
             InningsDiv(TRUE, <<>>)>> }

\* link targets: /x/<id>/y
Href(id) == <<"/","x","/">> \o id \o <<"/","y">>

\* anchors of the navigation menu
Anchors ==
    {Anchor(<<"A">> \o sDash \o sLive, TRUE, Href(<<"1">>)),
     Anchor(<<"B">> \o sDash \o sLive, TRUE, Href(<<"2">>)),
     Anchor(sMATCHES, FALSE, <<>>),
     Anchor(<<>>, TRUE, Href(<<"1">>)),
     Anchor(<<"B">> \o sDash \o sResult, TRUE, Href(<<"2">>)),
     Anchor(<<"A">> \o sDash \o sLive \o sDash \o <<"B">>, TRUE, Href(<<"1">>)),
     Anchor(<<"A","-","B">> \o sDash \o sLive, TRUE, Href(<<"1">>)),
     Anchor(<<"A">> \o sDash \o sLive, FALSE, <<>>),
     Anchor(<<"A">> \o sDash \o sLive, TRUE, <<"/","x">>),
     Anchor(<<"A">> \o sDash \o sLive, TRUE, Href(<<"a","b">>)),
     Anchor(<<" "," ","B"," ","-"," "," ">> \o sLive \o <<" ">>, TRUE,
            <<"x","/","y","/","2">>),
     Anchor(<<"A">> \o sDash \o sLive \o <<"l","y">>, TRUE, Href(<<"1">>)),
     Anchor(sLive, TRUE, Href(<<"1">>)),
     Anchor(<<"A">> \o sDash \o sLive, TRUE,
            Href(<<"9","9","9","9","9","9","9","9","9","9","9">>))}

RECURSIVE SeqsUpTo(_, _)
SeqsUpTo(S, n) ==
    IF n = 0 THEN {<<>>}
    ELSE SeqsUpTo(S, n - 1) \cup
         {Append(q, x) : q \in SeqsUpTo(S, n - 1), x \in S}

\* homepage documents: the anchors of nav.cb-mat-mnu in document order
Homes == SeqsUpTo(Anchors, MaxAnchors)

\* time.Time{}: so long ago that no sleep is needed
ZeroTime == 0 - requestInterval

\* -------------------------------------------------- the program starting up
\* cmd/root.go lines 78-83: app.New() or app.NewWithMatchID(id) is running
BeginNew == [IdleG EXCEPT !.fn = "new", !.pc = "call", !.req = "home"]
BeginNewWithMatchID(id) == EnterGetMatchInfo([IdleG EXCEPT !.fn = "newid"], id)

InitStart ==
    /\ now = 0
    /\ lastRequest = ZeroTime
    /\ Matches = <<>>
    /\ \E rec \in {BeginNew} \cup {BeginNewWithMatchID(id) : id \in MatchIDs} :
           gs = [g \in Goroutines |-> IF g = 0 THEN rec ELSE IdleG]
    /\ timers = <<>>
    /\ selectedMatch = 0
    /\ currentInnings = 0
    /\ showBowling = FALSE
    /\ tickRate \in TickRates
    /\ ui = "load"
    /\ prevBegin = 0
    /\ lastBegin = 0
    /\ innings = EmptyInnings
    /\ rowLog = <<>>
    /\ fragment = <<>>
    /\ cleanText = <<>>
    /\ at = "idle"

NextStart ==
    \/ makeRequestSleep(0)
    \/ Elapse(0)
    \/ /\ AtRequest(0, "home")
       /\ \E out \in Outcomes, doc \in Homes : GetHomepage(0, out, doc)
    \/ \E out \in Outcomes, json \in Summaries : GetSummary(0, out, json)
    \/ \E out \in Outcomes, doc \in Cards : GetScorecard(0, out, doc)
    \/ ConstructorReturn(0)

SpecStart == InitStart /\ [][NextStart]_vars

\* ------------------------------------------------------- GetMatchInfo claims
\* C5: when the summary was fetched and decoded but the scorecard fetch or
\* parse failed, GetMatchInfo returns no error and a MatchInfo with the id
\* asked for, the decoded summary and no innings.
ScorecardFailureNotFatal ==
    \A g \in Goroutines :
        LET r == gs[g].res
        IN (r.done /\ r.sumOut = "ok" /\ r.scOut \in {"fail", "bad"}) =>
               /\ ~r.err
               /\ Len(r.info) = 1
               /\ r.info[1].id = r.id
               /\ r.info[1].info = r.json
               /\ r.info[1].sc = <<>>

ScorecardFailureSeen ==
    \E g \in Goroutines :
        /\ gs[g].res.done
        /\ gs[g].res.sumOut = "ok"
        /\ gs[g].res.scOut = "fail"
        /\ gs[g].res.json \in Summaries
        /\ gs[g].res.id \in MatchIDs

\* C6: when the summary fetch failed or its body did not decode, GetMatchInfo
\* returns an error, no scorecard request was made by that call, and no
\* goroutine is ever at the scorecard request without a decoded summary.
SummaryFailureFatal ==
    \A g \in Goroutines :
        /\ (gs[g].res.done /\ gs[g].res.sumOut \in {"fail", "bad"}) =>
               /\ gs[g].res.err
               /\ gs[g].res.info = <<>>
               /\ gs[g].res.scOut = "none"
        /\ gs[g].req = "scorecard" => gs[g].sumOut = "ok"

SummaryFailureSeen ==
    \E g \in Goroutines :
        /\ gs[g].res.done
        /\ gs[g].res.sumOut = "bad"
        /\ gs[g].res.err

\* -------------------------------------------------------- GetScorecard claims
\* C13: the scorecard holds one innings record for every container innings_N
\* (N in 1..4) the document has, in ascending N, and nothing for a missing one:
\* the k-th container present gives the k-th record.
Present(card) == {i \in 1..4 : card[i].present}
Rank(card, i) == Cardinality({j \in Present(card) : j <= i})

OneRecordPerContainer ==
    \A g \in Goroutines :
        LET r == gs[g].res
        IN (r.done /\ r.scOut = "ok") =>
               /\ Len(r.info) = 1
               /\ Len(r.info[1].sc) = Cardinality(Present(r.card))
               /\ \A i \in Present(r.card) :
                      r.info[1].sc[Rank(r.card, i)]
                          = parseInningsInfo(r.card[i].rows)

\* a document with innings_1 and innings_3 only gave two records
FirstAndThirdInnings ==
    \E g \in Goroutines :
        LET r == gs[g].res
        IN /\ r.done
           /\ r.scOut = "ok"
           /\ Present(r.card) = {1, 3}
           /\ Len(r.info[1].sc) = 2
           /\ r.info[1].sc[2] = parseInningsInfo(<<BatRow>>)
           /\ r.info[1].sc[1] # r.info[1].sc[2]

\* -------------------------------------------------- GetAllLiveMatches claims
\* the text of an anchor read without strings.Split: up to the first "-", and
\* what follows it
TextOf(a) == TrimSpace(a.text)
FirstDash(t) == FirstIdx(t, "-", 1)
LeftToken(t) == TrimSpace(SubSeq(t, 1, FirstDash(t) - 1))
Remainder(t) == SubSeq(t, FirstDash(t) + 1, Len(t))

\* the whole remainder after the first "-", trimmed, is "Live"
WholeRemainderLive(t) ==
    /\ t # <<>>
    /\ t # sMATCHES
    /\ FirstDash(t) # 0
    /\ TrimSpace(Remainder(t)) = sLive

\* the remainder after the first "-", up to the next "-" if there is one,
\* trimmed, is "Live"
SecondPartLive(t) ==
    /\ t # <<>>
    /\ t # sMATCHES
    /\ FirstDash(t) # 0
    /\ LET r == Remainder(t)
           j == FirstIdx(r, "-", 1)
       IN TrimSpace(IF j = 0 THEN r ELSE SubSeq(r, 1, j - 1)) = sLive

\* the link has a third path segment that is an unsigned 32-bit number
LinkOk(a) ==
    /\ a.hasHref
    /\ Len(Split(a.href, "/")) >= 3
    /\ ParseUintOk(Split(a.href, "/")[3])
LinkID(a) == ParseUintVal(Split(a.href, "/")[3])

TextAdmits(t, whole) ==
    IF whole THEN WholeRemainderLive(t) ELSE SecondPartLive(t)

\* stands for an entry the result lacks or has in excess
NoEntry == [name |-> <<>>, id |-> 0 - 1]

\* the entries discovery must return for a document, given the outcome of the
\* GetMatchInfo calls it made, in order
RECURSIVE Admitted(_, _, _)
Admitted(doc, calls, whole) ==
    IF doc = <<>> THEN (IF calls = <<>> THEN <<>> ELSE <<NoEntry>>)
    ELSE IF TextAdmits(TextOf(Head(doc)), whole) /\ LinkOk(Head(doc))
         THEN IF calls = <<>> THEN <<NoEntry>>
              ELSE (IF Head(calls).ok
                    THEN <<[name |-> LeftToken(TextOf(Head(doc))),
                            id |-> LinkID(Head(doc))]>>
                    ELSE <<>>)
                   \o Admitted(Tail(doc), Tail(calls), whole)
         ELSE Admitted(Tail(doc), calls, whole)

Entries(val) == [i \in 1..Len(val) |-> [name |-> val[i].name, id |-> val[i].id]]

\* GetAllLiveMatches has returned after a homepage that was fetched and parsed
Discovered(g) ==
    /\ gs[g].pc = "back"
    /\ InDiscovery(gs[g])
    /\ gs[g].homeOut = "ok"

\* C7 as stated: an anchor is admitted exactly when the whole remainder after
\* the first "-", trimmed, is "Live"; the name is the trimmed left-hand token;
\* the admitted entries are in document order.
AdmitsWholeRemainderLive ==
    \A g \in Goroutines :
        Discovered(g) =>
            Entries(gs[g].val) = Admitted(gs[g].doc, gs[g].calls, TRUE)

\* C7 amended: an anchor is admitted exactly when the part of its text between
\* the first "-" and the next "-" (or the end), trimmed, is "Live"; the name
\* is the trimmed left-hand token; the admitted entries are in document order.
AdmitsSecondPartLive ==
    \A g \in Goroutines :
        Discovered(g) =>
            Entries(gs[g].val) = Admitted(gs[g].doc, gs[g].calls, FALSE)

AdmittedAfterExcluded ==
    \E g \in Goroutines :
        /\ Discovered(g)
        /\ Len(gs[g].doc) = 2
        /\ TextOf(gs[g].doc[1]) = <<"B">> \o sDash \o sResult
        /\ Entries(gs[g].val) = <<[name |-> <<"A">>, id |-> 1]>>

\* C8: once the homepage is fetched and parsed discovery returns no error;
\* every live entry with a usable link is tried, whatever came before it, and
\* the result holds exactly the entries whose GetMatchInfo call succeeded.
LiveWithLink(doc) ==
    {i \in 1..Len(doc) : SecondPartLive(TextOf(doc[i])) /\ LinkOk(doc[i])}

OkIDs(calls) ==
    LET F[i \in 0..Len(calls)] ==
            IF i = 0 THEN <<>>
            ELSE IF calls[i].ok THEN Append(F[i - 1], calls[i].id)
                 ELSE F[i - 1]
    IN F[Len(calls)]

DiscoverySkipsBadEntries ==
    \A g \in Goroutines :
        Discovered(g) =>
            /\ ~gs[g].err
            /\ Len(gs[g].calls) = Cardinality(LiveWithLink(gs[g].doc))
            /\ [i \in 1..Len(gs[g].val) |-> gs[g].val[i].id]
                   = OkIDs(gs[g].calls)

SkippedThenAdmitted ==
    \E g \in Goroutines :
        /\ Discovered(g)
        /\ Len(gs[g].doc) = 2
        /\ SecondPartLive(TextOf(gs[g].doc[1]))
        /\ ~LinkOk(gs[g].doc[1])
        /\ Len(gs[g].val) = 1

\* ------------------------------------------------------------ Model.Update
RemoveAt(q, i) == SubSeq(q, 1, i - 1) \o SubSeq(q, i + 1, Len(q))

\* lines 566-567 with tickCmd lines 508-512: one more tick is scheduled
ScheduleTick(ts, t) == Append(ts, t + tickRate)

\* the command of lines 558-563 starts on a free goroutine; free goroutines
\* are alike, the first one is taken
FreeCmd(g) ==
    /\ g \in Cmds
    /\ gs[g].pc = "idle"
    /\ \A h \in Cmds : h < g => gs[h].pc # "idle"

\* lines 557-568: a tickMsg arrives; the refresh command is started and the
\* next tick scheduled
UpdateTick(g) ==
    /\ ui = "run"
    /\ at = "idle"
    /\ FreeCmd(g)
    /\ \E i \in 1..Len(timers) :
           /\ timers[i] <= now
           /\ timers' = ScheduleTick(RemoveAt(timers, i), now)
    /\ gs' = [gs EXCEPT ![g] = BeginUpdateMatches(Matches)]
    /\ UNCHANGED <<now, lastRequest, Matches, selectedMatch, currentInnings,
                   showBowling, tickRate, ui, prevBegin,
                   lastBegin, innings, rowLog,
                   fragment, cleanText, at>>

Keys == {"left", "right", "up", "down", "b", "q"}

\* lines 548-550: the innings index after "down", given the list read at
\* line 547
InningsDown(matches) ==
    IF currentInnings < Len(matches[selectedMatch + 1].sc) - 1
    THEN currentInnings + 1
    ELSE currentInnings

\* lines 525-554 and 566-568: a key is pressed.  For "down", once the check of
\* line 546 has passed the handler goes on in UpdateKeyDown.
UpdateKey(k) ==
    /\ ui = "run"
    /\ at = "idle"
    /\ IF k = "q"
       THEN /\ ui' = "quit"
            /\ UNCHANGED <<selectedMatch, currentInnings, showBowling, timers,
                           at>>
       ELSE /\ Len(timers) < MaxTimers
            /\ ui' = ui
            /\ IF k = "down" /\ selectedMatch < Len(Matches)
               THEN /\ at' = "down"
                    /\ UNCHANGED <<selectedMatch, currentInnings, showBowling,
                                   timers>>
               ELSE /\ at' = at
                    /\ timers' = ScheduleTick(timers, now)
                    /\ CASE k = "left" ->
                              IF selectedMatch > 0
                              THEN /\ selectedMatch' = selectedMatch - 1
                                   /\ currentInnings' = 0
                                   /\ showBowling' = FALSE
                              ELSE UNCHANGED <<selectedMatch, currentInnings,
                                               showBowling>>
                         [] k = "right" ->
                              IF selectedMatch < Len(Matches) - 1
                              THEN /\ selectedMatch' = selectedMatch + 1
                                   /\ currentInnings' = 0
                                   /\ showBowling' = FALSE
                              ELSE UNCHANGED <<selectedMatch, currentInnings,
                                               showBowling>>
                         [] k = "up" ->
                              /\ currentInnings' = IF currentInnings > 0
                                                   THEN currentInnings - 1
                                                   ELSE currentInnings
                              /\ UNCHANGED <<selectedMatch, showBowling>>
                         [] k = "down" ->
                              UNCHANGED <<selectedMatch, currentInnings,
                                          showBowling>>
                         [] k = "b" ->
                              /\ showBowling' = ~showBowling
                              /\ UNCHANGED <<selectedMatch, currentInnings>>
    /\ UNCHANGED <<now, lastRequest, Matches, gs, tickRate, prevBegin,
                   lastBegin, innings, rowLog, fragment, cleanText>>

\* lines 547-551 and 566-568: m.app.Matches[m.selectedMatch] is read; the
\* list may have been replaced since line 546 (index out of range)
UpdateKeyDown ==
    /\ ui = "run"
    /\ at = "down"
    /\ IF selectedMatch >= Len(Matches)
       THEN /\ ui' = "panic"
            /\ UNCHANGED <<currentInnings, timers, at>>
       ELSE /\ currentInnings' = InningsDown(Matches)
            /\ timers' = ScheduleTick(timers, now)
            /\ at' = "idle"
            /\ ui' = ui
    /\ UNCHANGED <<now, lastRequest, Matches, gs, selectedMatch, showBowling,
                   tickRate, prevBegin, lastBegin, innings, rowLog, fragment,
                   cleanText>>

\* lines 520-522 and 566-568: the window is resized (width and height only
\* lay out the view and are left out)
UpdateWindowSize ==
    /\ ui = "run"
    /\ at = "idle"
    /\ Len(timers) < MaxTimers
    /\ timers' = ScheduleTick(timers, now)
    /\ UNCHANGED <<now, lastRequest, Matches, gs, selectedMatch,
                   currentInnings, showBowling, tickRate, ui,
                   prevBegin, lastBegin, innings, rowLog,
                   fragment, cleanText, at>>

\* lines 558-568: the refresh command has returned.  An error is a message
\* Update handles like any other (one more tick is scheduled); nil is dropped
\* by the bubbletea event loop.
UpdateResult(g) ==
    /\ ui = "run"
    /\ at = "idle"
    /\ g \in Cmds
    /\ gs[g].pc = "done"
    /\ IF gs[g].err
       THEN /\ Len(timers) < MaxTimers
            /\ timers' = ScheduleTick(timers, now)
       ELSE timers' = timers
    /\ gs' = [gs EXCEPT ![g] = IdleG]
    /\ UNCHANGED <<now, lastRequest, Matches, selectedMatch, currentInnings,
                   showBowling, tickRate, ui, prevBegin,
                   lastBegin, innings, rowLog,
                   fragment, cleanText, at>>

\* -------------------------------------------------------------- Model.View
\* lines 574-595: the list is not empty and the check of line 595 passes
ViewBegin ==
    /\ ui = "run"
    /\ at = "idle"
    /\ Len(Matches) > 0
    /\ selectedMatch < Len(Matches)
    /\ at' = "view"
    /\ UNCHANGED <<now, lastRequest, Matches, gs, timers, selectedMatch,
                   currentInnings, showBowling, tickRate, ui, prevBegin,
                   lastBegin, innings, rowLog, fragment, cleanText>>

\* renderMatchInfo line 669, for the match read at line 596
ShowsScorecard(match) ==
    Len(match.sc) > 0 /\ currentInnings < Len(match.sc)

\* lines 596-597 with renderMatchInfo lines 644-671: the selected match is
\* read from the list as it is now and rendered
ViewMatch ==
    /\ ui = "run"
    /\ at = "view"
    /\ IF selectedMatch >= Len(Matches)
       THEN ui' = "panic" /\ at' = at
       ELSE /\ ui' = ui
            /\ at' = IF ShowsScorecard(Matches[selectedMatch + 1])
                     THEN "card" ELSE "idle"
    /\ UNCHANGED <<now, lastRequest, Matches, gs, timers, selectedMatch,
                   currentInnings, showBowling, tickRate, prevBegin,
                   lastBegin, innings, rowLog, fragment, cleanText>>

\* renderCurrentInningsScorecard line 834: the list is read once more
ViewScorecard ==
    /\ ui = "run"
    /\ at = "card"
    /\ IF selectedMatch >= Len(Matches)
       THEN ui' = "panic" /\ at' = at
       ELSE ui' = ui /\ at' = "idle"
    /\ UNCHANGED <<now, lastRequest, Matches, gs, timers, selectedMatch,
                   currentInnings, showBowling, tickRate, prevBegin,
                   lastBegin, innings, rowLog, fragment, cleanText>>

\* ------------------------------------------------------- the running program
\* what New or NewWithMatchID left in App.Matches
MatchA == [MatchInfo(1, ApiURL(CricbuzzMatchAPI, 1),
                     CricbuzzJSON(<<"I">>, <<"A">>, 0), <<>>)
              EXCEPT !.name = <<"A">>]
MatchB == [MatchInfo(2, ApiURL(CricbuzzMatchAPI, 2),
                     CricbuzzJSON(<<"I">>, <<"A">>, 0),
                     <<parseInningsInfo(<<BatRow, BowlRow>>),
                       parseInningsInfo(<<BatRow>>)>>)
              EXCEPT !.name = <<"B">>]
InitMatches == {<<>>, <<MatchA>>, <<MatchA, MatchB>>}

\* homepages and summaries the running program is served
HomesRun ==
    {<<>>,
     <<Anchor(<<"A">> \o sDash \o sLive, TRUE, Href(<<"1">>))>>,
     <<Anchor(<<"A">> \o sDash \o sLive, TRUE, Href(<<"1">>)),
       Anchor(<<"B">> \o sDash \o sLive, TRUE, Href(<<"2">>))>>}
SummariesRun == {CricbuzzJSON(<<"I">>, <<"A">>, 1)}
OutcomesRun == {"ok", "fail"}

\* the UI has just started: the last request of New went out now, the first
\* tick is scheduled
Init ==
    /\ now = 0
    /\ lastRequest = 0
    /\ Matches \in InitMatches
    /\ gs = [g \in Goroutines |-> IdleG]
    /\ tickRate \in TickRates
    /\ timers = <<tickRate>>
    /\ selectedMatch = 0
    /\ currentInnings = 0
    /\ showBowling = FALSE
    /\ ui = "run"
    /\ prevBegin = 0
    /\ lastBegin = 0
    /\ innings = EmptyInnings
    /\ rowLog = <<>>
    /\ fragment = <<>>
    /\ cleanText = <<>>
    /\ at = "idle"

\* the steps of the refresh command on goroutine g
Refresh(g) ==
    \/ makeRequestSleep(g)
    \/ \E out \in OutcomesRun, doc \in HomesRun : GetHomepage(g, out, doc)
    \/ \E out \in OutcomesRun, json \in SummariesRun : GetSummary(g, out, json)
    \/ \E out \in OutcomesRun, doc \in Cards : GetScorecard(g, out, doc)
    \/ UpdateMatchesReturn(g)

Next ==
    \/ Tick
    \/ \E g \in Cmds : UpdateTick(g)
    \/ \E k \in Keys : UpdateKey(k)
    \/ UpdateKeyDown
    \/ UpdateWindowSize
    \/ ViewBegin
    \/ ViewMatch
    \/ ViewScorecard
    \/ \E g \in Cmds : UpdateResult(g)
    \/ \E g \in Cmds : Refresh(g)

Spec == Init /\ [][Next]_vars

\* --------------------------------------- start-up with a free-running clock
\* New or NewWithMatchID on the main goroutine: its requests follow one
\* another; sleeps may overrun and responses may take any time
NextSeq ==
    \/ Tick
    \/ makeRequestSleep(0)
    \/ \E out \in Outcomes, doc \in HomesRun : GetHomepage(0, out, doc)
    \/ \E out \in Outcomes, json \in Summaries : GetSummary(0, out, json)
    \/ \E out \in Outcomes, doc \in Cards : GetScorecard(0, out, doc)
    \/ ConstructorReturn(0)

SpecSeq == InitStart /\ [][NextSeq]_vars

\* ------------------------------------------------------- makeRequest claims
\* C1: when the calls of makeRequest follow one another, each request begins
\* at least requestInterval after the one before; lastRequest is the time the
\* latest request began whether or not its GET succeeded; N calls in a row
\* span at least N - 1 intervals.
SequentialRequestsSpaced ==
    LET c == gs[0]
    IN /\ c.n >= 1 => lastRequest = c.last
       /\ c.n >= 2 => lastBegin - prevBegin >= requestInterval
       /\ c.n >= 1 => c.last - c.first >= (c.n - 1) * requestInterval

\* three requests in a row, the second of which failed
ThreeRequestsOneFailed ==
    /\ gs[0].n = 3
    /\ gs[0].fn = "new"
    /\ Len(gs[0].calls) = 1
    /\ ~gs[0].calls[1].ok
    /\ gs[0].last - gs[0].first >= 2 * requestInterval

\* C2: whatever the interleaving of the refresh goroutines, no two requests
\* begin less than requestInterval apart.
RequestsSpacedGlobally ==
    (\E g \in Cmds : gs[g].n >= 1) => lastBegin - prevBegin >= requestInterval

\* C3: at most one execution of UpdateMatches is in flight.
InFlight(g) == gs[g].fn = "update" /\ gs[g].pc \in {"call", "sleep", "back"}
OneRefreshInFlight ==
    Cardinality({g \in Cmds : InFlight(g)}) <= 1

\* C4: when UpdateMatches returns an error App.Matches is what it was when the
\* call was made; when it returns nil App.Matches is what the call fetched:
\* the one match resolved, under the short name it had, or the list
\* discovery returned.
Fetched(rec, matches) ==
    IF rec.mode = "single"
    THEN /\ Len(matches) = 1
         /\ Len(rec.pre) = 1
         /\ matches[1] = [rec.val[1] EXCEPT !.name = rec.pre[1].name,
                                            !.updated = matches[1].updated]
    ELSE /\ Len(matches) = Len(rec.val)
         /\ \A i \in 1..Len(matches) :
                matches[i] = [rec.val[i] EXCEPT !.updated = matches[i].updated]

Returns(g) == gs[g].pc = "back" /\ gs[g].fn = "update" /\ gs'[g].pc = "done"

RefreshAllOrNothing ==
    [][\A g \in Cmds :
           Returns(g) =>
               IF gs[g].err THEN Matches' = gs[g].pre
               ELSE Fetched(gs[g], Matches')]_vars

\* ------------------------------------------------------ Model.Update claims
\* C15: at any moment at most one refresh timer is pending, whatever keys,
\* window sizes and refresh results Update has handled.
OneTimerPending == Len(timers) <= 1

\* C16: once App.Matches holds exactly one match it holds one match for the
\* rest of the run, with the same id and the same short name, and no refresh
\* runs discovery; a refresh that finds one match re-resolves it, any other
\* refresh runs discovery.
StaysSingleMatch ==
    [][/\ Len(Matches) = 1 =>
              /\ Len(Matches') = 1
              /\ Matches'[1].id = Matches[1].id
              /\ Matches'[1].name = Matches[1].name
              /\ \A g \in Cmds : InFlight(g)' => gs'[g].mode = "single"
       /\ \A g \in Cmds :
              (gs[g].pc = "idle" /\ gs'[g].fn = "update") =>
                  gs'[g].mode = IF Len(Matches) = 1 THEN "single" ELSE "multi"
      ]_vars

\* C17: whenever the list is not empty selectedMatch is an index into it, and
\* whenever the selected match has a scorecard currentInnings is an index
\* into it.
SelectionInRange ==
    /\ Len(Matches) > 0 => selectedMatch < Len(Matches)
    /\ (selectedMatch < Len(Matches)
            /\ Len(Matches[selectedMatch + 1].sc) > 0) =>
           currentInnings < Len(Matches[selectedMatch + 1].sc)

\* C18: no access to Matches[selectedMatch] made by Update or View after its
\* bounds check is out of range.
NoOutOfRangeAccess == ~(ui = "panic" /\ at \in {"down", "view", "card"})

\* ------------------------------------------------- parseInningsInfo alone
\* row groups of an innings container: batsmen, bowlers, summary and header
\* rows, rows that are too short or too long
RowGroups ==
    { << <<"K","o","h","l","i">>, <<"n","o","t"," ","o","u","t">>, <<"5","5">>,
         <<"3","0">>, <<"4">>, <<"2">>, <<"1","8","3",".","3">> >>,
      << <<"R","o","h","i","t">>,
           <<"c"," ","S","m","i","t","h"," ","b"," ","S","t","a","r","c">>,
           <<"1","0">>, <<"1","2">>, <<"1">>, <<"0">> >>,
      << <<"S","t","a","r","c">>, <<"4",".","0">>, <<"0">>, <<"2","1">>,
           <<"1">>, <<"0">>, <<"1">>, <<"5",".","2">> >>,
      << <<"T","o","t","a","l">>, <<"2","5","0">>, <<>>, <<>>, <<>>, <<>> >>,
      << <<"E","x","t","r","a","s">>, <<"1","2">>, <<>>, <<>>, <<>>, <<>> >>,
      << <<"E","X","T","R","A","S">>,
           <<"1","2"," ","(","b"," ","4",","," ","l","b"," ","2",")">>, <<>>,
           <<>>, <<>>, <<>> >>,
      << <<"F","a","l","l"," ","o","f"," ","W","i","c","k","e","t","s">>,
           <<"1","-","1","0">>, <<>>, <<>>, <<>>, <<>> >>,
      << <<"B","o","w","l","e","r">>, <<"O">>, <<"M">>, <<"R">>, <<"W">>,
           <<"N","B">>, <<"W","D">>, <<"E","C","O">> >>,
      << <<"B","a","t","t","e","r">>, <<>>, <<"R">>, <<"B">>, <<"4","s">>,
           <<"6","s">>, <<"S","R">> >>,
      << <<>>, <<"O","v","e","r","s">>, <<"1">>, <<"2">>, <<"3">>, <<"4">> >>,
      << <<"G","i","l","l">>, <<>>, <<"7">>, <<"9">>, <<"1">>, <<"0">>,
           <<"7","7",".","7">> >>,
      << <<"L","y","o","n">>, <<"1","0">>, <<"1">>, <<"4","0">>, <<"2">>,
           <<"0">>, <<"0">>, <<"4",".","0">>, <<"x">> >>,
      << <<"K","o","h","l","i">>, <<"n","o","t"," ","o","u","t">>, <<"5","5">>,
           <<"3","0">>, <<"4">> >>,
      << <<>>, <<"n","o","t"," ","o","u","t">>, <<"1">>, <<"2">>, <<"3">>,
           <<"4">> >>,
      << <<"<","a"," ","h","r","e","f","=","\"","/","p","/","1","\"",">","H","e","a","d","<","/","a",">">>,
           <<"<","s","p","a","n"," ","c","l","a","s","s","=","\"","x","\"",">","l","b","w"," ","b"," ","K","h","a","n","<","/","s","p","a","n",">">>,
           <<"5">>, <<"9">>, <<"1">>, <<"0">>, <<"5","5",".","5">> >>,
      << <<"T","o","t","a","l">>, <<"4",".","2">>, <<"1">>, <<"2">>, <<"3">>,
           <<"4">> >>,
      << <<"S","t","a","r","c">>, <<"4",".","0">> >>,
      << >> }

InitRows ==
    /\ now = 0
    /\ lastRequest = ZeroTime
    /\ Matches = <<>>
    /\ gs = [g \in Goroutines |-> IdleG]
    /\ timers = <<>>
    /\ selectedMatch = 0
    /\ currentInnings = 0
    /\ showBowling = FALSE
    /\ tickRate \in TickRates
    /\ ui = "load"
    /\ prevBegin = 0
    /\ lastBegin = 0
    /\ innings = EmptyInnings
    /\ rowLog = <<>>
    /\ fragment = <<>>
    /\ cleanText = <<>>
    /\ at = "idle"

\* lines 287-370: the callback visits the next row group of the container
VisitRow(cells) ==
    /\ Len(rowLog) < MaxRows
    /\ innings' = ParseRow(innings, cells)
    /\ rowLog' = Append(rowLog, cells)
    /\ UNCHANGED <<now, lastRequest, Matches, gs, timers, selectedMatch,
                   currentInnings, showBowling, tickRate, ui, prevBegin,
                   lastBegin, fragment, cleanText, at>>

NextRows == \E cells \in RowGroups : VisitRow(cells)

SpecRows == InitRows /\ [][NextRows]_vars

\* -------------------------------------------------- parseInningsInfo claims
Labels == {sExtras, sTotal, sFallOfWickets}

\* C9: every batting record and every bowling record has a name that is not
\* empty and is not, whatever the case, one of the category labels.
NamedRecord(r) == r.Name # <<>> /\ ToLower(r.Name) \notin Labels
RecordsAreNamed ==
    /\ \A i \in 1..Len(innings.BatsmanDetails) :
           NamedRecord(innings.BatsmanDetails[i])
    /\ \A i \in 1..Len(innings.BowlerDetails) :
           NamedRecord(innings.BowlerDetails[i])

\* C10: a row group of at least 6 cells whose second cell is neither an overs
\* value nor a dismissal, and whose first or second cell holds one of the
\* labels of skipRows, adds no batting record and no bowling record.
LabelRow(cells) ==
    /\ Len(cells) >= 6
    /\ ~oversPattern(CellText(cells, 2))
    /\ ~HasBattingStatus(CellText(cells, 2))
    /\ \E i \in 1..Len(skipRows) :
           \/ Contains(ToLower(CellText(cells, 1)), skipRows[i])
           \/ Contains(ToLower(CellText(cells, 2)), skipRows[i])

LabelRowsRejected ==
    [][LabelRow(rowLog'[Len(rowLog')]) => innings' = innings]_vars

\* C11: a row group of fewer than 6 cells produces no record: every batting
\* and bowling record was built from a visited row group of 6 cells or more,
\* and there are no more records than such row groups.
LongRows == {i \in 1..Len(rowLog) : Len(rowLog[i]) >= 6}

ShortRowsGiveNoRecord ==
    /\ \A k \in 1..Len(innings.BatsmanDetails) :
           \E i \in LongRows : innings.BatsmanDetails[k] = BatsmanInfo(rowLog[i])
    /\ \A k \in 1..Len(innings.BowlerDetails) :
           \E i \in LongRows : innings.BowlerDetails[k] = BowlerInfo(rowLog[i])
    /\ Len(innings.BatsmanDetails) + Len(innings.BowlerDetails)
           <= Cardinality(LongRows)

\* a batsman's row of 5 cells, then a bowler's row of 8: one bowling record
ShortRowThenBowler ==
    /\ Len(rowLog) = 2
    /\ Len(rowLog[1]) = 5
    /\ HasBattingStatus(CellText(rowLog[1], 2))
    /\ Len(rowLog[2]) = 8
    /\ innings.BatsmanDetails = <<>>
    /\ Len(innings.BowlerDetails) = 1

\* C12: a row group whose second cell is an overs value (digits, a dot,
\* digits) adds no batting record, whatever its first cell and its cell count.
OversRow(cells) == Len(cells) >= 2 /\ oversPattern(CellText(cells, 2))

OversRowNeverBatting ==
    [][OversRow(rowLog'[Len(rowLog')]) =>
           innings'.BatsmanDetails = innings.BatsmanDetails]_vars

\* an overs row of 8 cells with a name in its first cell gave a bowling record
OversRowGaveBowler ==
    /\ Len(rowLog) = 1
    /\ OversRow(rowLog[1])
    /\ Len(rowLog[1]) = 8
    /\ CellText(rowLog[1], 1) # <<>>
    /\ innings.BatsmanDetails = <<>>
    /\ Len(innings.BowlerDetails) = 1

\* --------------------------------------------------------- cleanHTML alone
MaxPieces == 3   \* pieces a fragment is made of

\* pieces of markup and text: brackets, white space, halves of tags
Pieces ==
    { <<"<">>, <<">">>, <<" ">>, <<"\n">>, <<"NBSP">>, <<"x">>,
      sSpanOpen \o <<" ">> \o sClassEq \o <<"c","\"">>,
      sSpanClose, sAOpen, sAClose,
      <<"<","s","t","r">>, <<"o","n","g",">">>, <<"a",">">> }

RECURSIVE Concat(_)
Concat(q) == IF q = <<>> THEN <<>> ELSE Head(q) \o Concat(Tail(q))

Fragments == {Concat(q) : q \in SeqsUpTo(Pieces, MaxPieces)}

InitClean ==
    /\ now = 0
    /\ lastRequest = ZeroTime
    /\ Matches = <<>>
    /\ gs = [g \in Goroutines |-> IdleG]
    /\ timers = <<>>
    /\ selectedMatch = 0
    /\ currentInnings = 0
    /\ showBowling = FALSE
    /\ tickRate \in TickRates
    /\ ui = "load"
    /\ prevBegin = 0
    /\ lastBegin = 0
    /\ innings = EmptyInnings
    /\ rowLog = <<>>
    /\ fragment \in Fragments
    /\ cleanText = <<>>
    /\ at = "idle"

\* cleanHTML is applied to the fragment, then to what it returned
Clean ==
    /\ Len(cleanText) < 2
    /\ cleanText' = Append(cleanText,
                           cleanHTML(IF cleanText = <<>> THEN fragment
                                     ELSE cleanText[Len(cleanText)]))
    /\ UNCHANGED <<now, lastRequest, Matches, gs, timers, selectedMatch,
                   currentInnings, showBowling, tickRate, ui, prevBegin,
                   lastBegin, innings, rowLog, fragment, at>>

NextClean == Clean

SpecClean == InitClean /\ [][NextClean]_vars

\* C14: cleaning what cleanHTML returned changes nothing, and the empty
\* fragment gives the empty string.
cleanHTMLIdempotent ==
    /\ Len(cleanText) = 2 => cleanText[2] = cleanText[1]
    /\ (Len(cleanText) >= 1 /\ fragment = <<>>) => cleanText[1] = <<>>

\* a fragment cleaned twice that the first pass changed and left a "<" in
CleanedTwiceKeptBracket ==
    /\ Len(cleanText) = 2
    /\ cleanText[1] # fragment
    /\ Contains(cleanText[1], <<"<">>)
    /\ Contains(fragment, <<">">>)
====
